---------------------------- MODULE Spec2Model ----------------------------
(***************************************************************************)
(* The poll loop of homework.py: main() fetches the review status from the *)
(* remote API, validates the response, renders the first homework record,  *)
(* sends it through the Telegram bot unless it repeats the last message,   *)
(* advances the timestamp, reports failures, sleeps, and repeats.          *)
(*                                                                         *)
(* Russian string literals of the source are written in Latin              *)
(* transliteration (one transliteration per literal, so that two texts are *)
(* equal here exactly when they are equal in the source); the original is  *)
(* quoted in the comment next to each.                                     *)
(*                                                                         *)
(* homework.py line 12 imports CantSendMessageError, which exceptions.py   *)
(* does not define; the model takes the name to be bound to a subclass of  *)
(* Exception, which is what send_message and main() are written against.   *)
(***************************************************************************)
EXTENDS Naturals, Sequences, FiniteSets, TLC

VARIABLES
    pc,             \* position of main(): "start", "try", "except", "finally", "exit"
    tokens,         \* the names among PRACTICUM_TOKEN, TELEGRAM_TOKEN, TELEGRAM_CHAT_ID that are set
    timestamp,      \* main(): timestamp, the cursor sent as from_date
    error_message,  \* main(): error_message, "" and then the last reported exception object
    last_message,   \* main(): last_message, the last status message sent
    error,          \* main(): the exception bound by `except Exception as error`
    propagating,    \* an exception raised inside the except block is in flight
    cur,            \* history: what happened in the current cycle
    prev,           \* history: summary of the cycle before it
    last_delivered, \* history: text of the last status message the bot delivered
    fetches,        \* history: calls of get_api_answer since the last time.sleep
    sleeps          \* history: calls of time.sleep since the last get_api_answer

vars == <<pc, tokens, timestamp, error_message, last_message, error, propagating,
          cur, prev, last_delivered, fetches, sleeps>>

---------------------------------------------------------------------------
(* Bounds of the input space *)

\* current_date and the start value of timestamp range over 0..MaxDate
MaxDate == 1
\* the homeworks list of a response holds at most MaxHomeworks records
MaxHomeworks == 2

---------------------------------------------------------------------------
(* Python values *)

\* None, as dict.get returns for an absent key
PyNone == "<None>"

\* a str value and an exception object; objects compare by identity (oid)
StrVal(s) == [kind |-> "str", oid |-> 0, type |-> "str", text |-> s]
ExcObj(o, t, s) == [kind |-> "exc", oid |-> o, type |-> t, text |-> s]
NoError == [kind |-> "none", oid |-> 0, type |-> "", text |-> ""]

\* The object id of a newly raised exception: error_message keeps the last
\* reported exception alive, so a new exception is a different object.
FreshOid == IF error_message.kind = "exc" THEN 1 - error_message.oid ELSE 0

\* PyNotEqual comparing the rendered texts
PyNotEqualText(a, b) == a.text # b.text

\* Python's != between the caught exception and error_message: Exception
\* defines no __eq__, so two objects are equal only if they are the same
\* object, and an exception never equals a str.
PyNotEqual(a, b) ==
    IF a.kind = "exc" /\ b.kind = "exc" THEN a.oid # b.oid
    ELSE IF a.kind = "str" /\ b.kind = "str" THEN a.text # b.text
    ELSE TRUE

\* str(error), as the f-string of line 186 renders it
PyStr(e) == e.text

\* outcome of a call: a returned value, or a raised exception (type, text);
\* `none` fills the value field of a raise with a value of the call's type
Return(v) == [raised |-> FALSE, type |-> "", text |-> "", value |-> v]
Raise(t, s, none) == [raised |-> TRUE, type |-> t, text |-> s, value |-> none]

---------------------------------------------------------------------------
(* The remote API's answers *)

Names == {PyNone, "", "hw1"}
Statuses == {PyNone, "approved", "rejected", "reviewing", "denied", "pending"}

\* an element of the homeworks list that is not a JSON object
NonDictRecord == [isDict |-> FALSE, homework_name |-> PyNone, status |-> PyNone]

\* the records of the homeworks list: JSON objects with at most one of the
\* two fields defective, and one element that is not an object
Records ==
    { [isDict |-> TRUE, homework_name |-> n, status |-> s] :
        n \in {"hw1"}, s \in Statuses }
    \cup { [isDict |-> TRUE, homework_name |-> n, status |-> "approved"] :
        n \in Names }
    \cup { NonDictRecord }

RECURSIVE ListsUpTo(_)
ListsUpTo(n) ==
    IF n = 0 THEN { <<>> }
    ELSE LET shorter == ListsUpTo(n - 1)
         IN  shorter \cup { Append(l, r) : l \in { s \in shorter : Len(s) = n - 1 }, r \in Records }

Dates == 0..MaxDate

\* the value of response.json(): not a JSON object at all
NonDictResponse ==
    [isDict |-> FALSE, hasHomeworks |-> FALSE, isList |-> FALSE,
     homeworks |-> <<>>, hasDate |-> FALSE, current_date |-> 0]

\* the JSON values get_api_answer can return
Responses ==
    { NonDictResponse }
    \cup { [isDict |-> TRUE, hasHomeworks |-> h, isList |-> FALSE,
            homeworks |-> <<>>, hasDate |-> TRUE, current_date |-> d] :
            h \in BOOLEAN, d \in Dates }
    \cup { [isDict |-> TRUE, hasHomeworks |-> TRUE, isList |-> TRUE,
            homeworks |-> l, hasDate |-> TRUE, current_date |-> d] :
            l \in ListsUpTo(MaxHomeworks), d \in Dates }
    \cup { [isDict |-> TRUE, hasHomeworks |-> TRUE, isList |-> TRUE,
            homeworks |-> l, hasDate |-> FALSE, current_date |-> 0] :
            l \in ListsUpTo(MaxHomeworks) }
    \cup { [isDict |-> TRUE, hasHomeworks |-> FALSE, isList |-> FALSE,
            homeworks |-> <<>>, hasDate |-> FALSE, current_date |-> 0] }

---------------------------------------------------------------------------
(* The functions of homework.py *)

\* get_api_answer(timestamp): what one call can do.
\*  - requests.get raises RequestException: the handler of line 98 reads
\*    response.status_code while `response` is unbound, so the call raises
\*    UnboundLocalError instead of the RequestException of line 100;
\*  - the status is not 200 and raise_for_status raises HTTPError;
\*  - response.json() raises on a body that is not JSON;
\*  - response.json() returns the decoded value.
get_api_answer ==
    { Raise("UnboundLocalError",
            "local variable 'response' referenced before assignment",
            NonDictResponse),
      Raise("HTTPError", "503 Server Error: Service Unavailable for url",
            NonDictResponse),
      Raise("JSONDecodeError", "Expecting value: line 1 column 1 (char 0)",
            NonDictResponse) }
    \cup { Return(r) : r \in Responses }

\* line 126: all(key for key in ("current_date", "homeworks")) tests the
\* truth value of the two key names, not their presence in the response
AllKeys == \A key \in {"current_date", "homeworks"} : key # ""

\* check_response(response); the TypeError text is
\* "Структура данных не соответствует ожиданиям"
check_response(response) ==
    IF /\ response.isDict
       /\ AllKeys
       /\ response.hasHomeworks /\ response.isList
    THEN Return(response.homeworks)
    ELSE Raise("TypeError", "Struktura dannyh ne sootvetstvuet ozhidanijam", <<>>)

\* lines 24-28; the verdicts are, in the source,
\*   "Работа проверена: ревьюеру всё понравилось. Ура!",
\*   "Работа взята на проверку ревьюером.",
\*   "Работа проверена: у ревьюера есть замечания."
HOMEWORK_VERDICTS ==
    [s \in {"approved", "reviewing", "rejected"} |->
        IF s = "approved" THEN "Rabota proverena: rev'jueru vsjo ponravilos'. Ura!"
        ELSE IF s = "reviewing" THEN "Rabota vzjata na proverku rev'juerom."
        ELSE "Rabota proverena: u rev'juera est' zamechanija."]

\* line 142
current_status == {"rejected", "reviewing", "approved", "denied"}

\* parse_status(homework). The returned texts are, in the source,
\*   "Неверный ответ сервера"
\*   'У вас проверили работу "{homework_name}"!\n\n{verdict}' with the verdicts
\*   "К сожалению, в работе нашлись ошибки.",
\*   "Работа взята в ревью. Ждите вердикта!",
\*   "Ревьюеру всё понравилось, работа зачтена!"
\* homework.get on a list element that is not a dict raises AttributeError.
parse_status(homework) ==
    IF ~homework.isDict
    THEN Raise("AttributeError", "'str' object has no attribute 'get'", "")
    ELSE
    LET homework_name == homework.homework_name
        homework_status == homework.status
    IN  IF homework_name \in {PyNone, ""} \/ homework_status \notin current_status
        THEN Return("Nevernyj otvet servera")
        ELSE LET verdict ==
                   IF homework_status = "rejected"
                   THEN "K sozhaleniju, v rabote nashlis' oshibki."
                   ELSE IF homework_status = "reviewing"
                   THEN "Rabota vzjata v rev'ju. Zhdite verdikta!"
                   ELSE "Rev'jueru vsjo ponravilos', rabota zachtena!"
             IN  Return("U vas proverili rabotu \"" \o homework_name
                        \o "\"!\n\n" \o verdict)

\* send_message(bot, text): bot.send_message delivers, or raises
\* TelegramError, which becomes CantSendMessageError
\* ("Невозможно отправить сообщение в Telegram")
send_message(text, delivered) ==
    IF delivered
    THEN Return(text)
    ELSE Raise("CantSendMessageError",
               "Nevozmozhno otpravit' soobshhenie v Telegram", text)

---------------------------------------------------------------------------
(* History of a cycle *)

\* what a cycle records of the response it fetched: every field, with the
\* homeworks list kept as its length (the records passed to parse_status are
\* recorded one by one in `parsed`)
Seen(response) ==
    [isDict |-> response.isDict, hasHomeworks |-> response.hasHomeworks,
     isList |-> response.isList, nrecords |-> Len(response.homeworks),
     hasDate |-> response.hasDate, current_date |-> response.current_date]

\* ts0, lm0, em0, ld0: timestamp, last_message, error_message and
\* last_delivered when the cycle began; fetched, validated: get_api_answer
\* and check_response returned; raisedBy, errType, errText: the function
\* whose statement raised in the try body ("main" for line 182), and the
\* exception; parsed: the records passed
\* to parse_status; rendered: the message it returned; calls: the calls of
\* send_message, in order
NewCycle ==
    [ts0 |-> timestamp, lm0 |-> last_message, em0 |-> error_message,
     ld0 |-> last_delivered,
     fetched |-> FALSE, validated |-> FALSE, response |-> Seen(NonDictResponse),
     raisedBy |-> "", errType |-> "", errText |-> "",
     parsed |-> <<>>, rendered |-> "", calls |-> <<>>]

NoCycle ==
    [ran |-> FALSE, raisedBy |-> "", errType |-> "", errText |-> "",
     rendered |-> "", calls |-> <<>>]

Summary(c) ==
    [ran |-> TRUE, raisedBy |-> c.raisedBy, errType |-> c.errType,
     errText |-> c.errText, rendered |-> c.rendered, calls |-> c.calls]

Call(kind, text, ok) == [kind |-> kind, text |-> text, ok |-> ok]

---------------------------------------------------------------------------
(* main() *)

\* Caught with the cursor advanced as soon as the response is validated
CaughtAdvancing(stage, out, lm, c) ==
    [timestamp |-> IF c.validated /\ c.response.hasDate
                   THEN c.response.current_date ELSE timestamp,
     last_message |-> lm,
     error |-> ExcObj(FreshOid, out.type, out.text),
     cur |-> [c EXCEPT !.raisedBy = stage, !.errType = out.type,
                       !.errText = out.text]]

\* Caught with the cursor reset by a failed cycle
CaughtRollback(stage, out, lm, c) ==
    [timestamp |-> 0, last_message |-> lm,
     error |-> ExcObj(FreshOid, out.type, out.text),
     cur |-> [c EXCEPT !.raisedBy = stage, !.errType = out.type,
                       !.errText = out.text]]

\* the try body left by an exception raised in `stage`
Caught(stage, out, lm, c) ==
    [timestamp |-> timestamp, last_message |-> lm,
     error |-> ExcObj(FreshOid, out.type, out.text),
     cur |-> [c EXCEPT !.raisedBy = stage, !.errType = out.type,
                       !.errText = out.text]]

\* Advance that leaves the cursor where it was
AdvanceStale(response, lm, c) ==
    IF response.hasDate
    THEN [timestamp |-> timestamp, last_message |-> lm,
          error |-> NoError, cur |-> c]
    ELSE Caught("main", Raise("KeyError", "'current_date'", 0), lm, c)

\* line 182: timestamp = response["current_date"]
Advance(response, lm, c) ==
    IF response.hasDate
    THEN [timestamp |-> response.current_date, last_message |-> lm,
          error |-> NoError, cur |-> c]
    ELSE Caught("main", Raise("KeyError", "'current_date'", 0), lm, c)

\* IsNew without the comparison: every rendered message is sent
IsNewAlways(message) == TRUE

\* line 178: if message != last_message
IsNew(message) == message # last_message

\* Notify with a second attempt after a failed delivery
NotifyRetry(response, delivered, c) ==
    LET homework == response.homeworks[1]
        parsed == parse_status(homework)
        c1 == [c EXCEPT !.parsed = Append(@, homework)]
    IN  IF parsed.raised THEN Caught("parse_status", parsed, last_message, c1)
        ELSE
        LET message == parsed.value
            c2 == [c1 EXCEPT !.rendered = message]
        IN  IF IsNew(message)
            THEN LET sent == send_message(message, delivered)
                     c3 == [c2 EXCEPT !.calls = Append(@, Call("status", message, delivered))]
                     c4 == [c3 EXCEPT !.calls = Append(@, Call("status", message, delivered))]
                 IN  IF sent.raised
                     THEN Caught("send_message", sent, last_message, c4)
                     ELSE Advance(response, message, c3)
            ELSE Advance(response, last_message, c2)

\* Notify with last_message assigned before the message is sent
NotifyAssignFirst(response, delivered, c) ==
    LET homework == response.homeworks[1]
        parsed == parse_status(homework)
        c1 == [c EXCEPT !.parsed = Append(@, homework)]
    IN  IF parsed.raised THEN Caught("parse_status", parsed, last_message, c1)
        ELSE
        LET message == parsed.value
            c2 == [c1 EXCEPT !.rendered = message]
        IN  IF IsNew(message)
            THEN LET sent == send_message(message, delivered)
                     c3 == [c2 EXCEPT !.calls = Append(@, Call("status", message, delivered))]
                 IN  IF sent.raised
                     THEN Caught("send_message", sent, message, c3)
                     ELSE Advance(response, message, c3)
            ELSE Advance(response, last_message, c2)

\* lines 175-180, for a non-empty homeworks list
Notify(response, delivered, c) ==
    LET homework == response.homeworks[1]
        parsed == parse_status(homework)
        c1 == [c EXCEPT !.parsed = Append(@, homework)]
    IN  IF parsed.raised THEN Caught("parse_status", parsed, last_message, c1)
        ELSE
        LET message == parsed.value
            c2 == [c1 EXCEPT !.rendered = message]
        IN  IF IsNew(message)
            THEN LET sent == send_message(message, delivered)
                     c3 == [c2 EXCEPT !.calls = Append(@, Call("status", message, delivered))]
                 IN  IF sent.raised
                     THEN Caught("send_message", sent, last_message, c3)
                     ELSE Advance(response, message, c3)
            ELSE Advance(response, last_message, c2)

\* lines 173-182: the try body, with the API's answer and the outcome of
\* the delivery (if one is attempted) as inputs
TryBody(api, delivered) ==
    IF api.raised THEN Caught("get_api_answer", api, last_message, NewCycle)
    ELSE
    LET response == api.value
        c0 == [NewCycle EXCEPT !.fetched = TRUE, !.response = Seen(response)]
        checked == check_response(response)
    IN  IF checked.raised THEN Caught("check_response", checked, last_message, c0)
        ELSE
        LET homeworks == checked.value
            c1 == [c0 EXCEPT !.validated = TRUE]
        IN  IF homeworks # <<>>
            THEN Notify(response, delivered, c1)
            ELSE Advance(response, last_message, c1)

\* the text of the last status message delivered, after the calls of a cycle
Delivered(calls, before) ==
    IF \E i \in DOMAIN calls : calls[i].kind = "status" /\ calls[i].ok
    THEN calls[CHOOSE i \in DOMAIN calls : calls[i].kind = "status" /\ calls[i].ok].text
    ELSE before

TryBlock ==
    /\ pc = "try"
    /\ \E api \in get_api_answer, delivered \in BOOLEAN :
         \E r \in { TryBody(api, delivered) } :
             /\ timestamp' = r.timestamp
             /\ last_message' = r.last_message
             /\ error' = r.error
             /\ cur' = r.cur
             /\ last_delivered' = Delivered(r.cur.calls, last_delivered)
             /\ pc' = IF r.error.kind = "none" THEN "finally" ELSE "except"
    /\ fetches' = fetches + 1
    /\ sleeps' = 0
    /\ UNCHANGED <<tokens, error_message, propagating, prev>>

\* lines 184-188; the message is f"Сбой в работе программы: {error}".
\* An exception raised by send_message here leaves the try statement.
ExceptBlock ==
    /\ pc = "except"
    /\ IF PyNotEqual(error, error_message)
       THEN \E delivered \in BOOLEAN :
              LET message == "Sboj v rabote programmy: " \o PyStr(error)
                  sent == send_message(message, delivered)
              IN  /\ cur' = [cur EXCEPT !.calls = Append(@, Call("error", message, delivered))]
                  /\ IF sent.raised
                     THEN propagating' = TRUE /\ UNCHANGED error_message
                     ELSE propagating' = FALSE /\ error_message' = error
       ELSE UNCHANGED <<cur, error_message, propagating>>
    /\ pc' = "finally"
    /\ UNCHANGED <<tokens, timestamp, last_message, error, prev, last_delivered,
                   fetches, sleeps>>

\* the sleep placed at the end of the try body instead of a finally
\* clause: a cycle that raised does not sleep
FinallyBlockNoSleepOnError ==
    /\ pc = "finally"
    /\ IF propagating
       THEN pc' = "exit" /\ UNCHANGED <<cur, prev, error>>
       ELSE pc' = "try" /\ prev' = Summary(cur) /\ cur' = NewCycle /\ error' = NoError
    /\ IF cur.raisedBy = ""
       THEN sleeps' = sleeps + 1 /\ fetches' = 0
       ELSE UNCHANGED <<sleeps, fetches>>
    /\ UNCHANGED <<tokens, timestamp, last_message, error_message, propagating, last_delivered>>

\* a finally clause that leaves main() after every cycle that raised
FinallyBlockExitOnError ==
    /\ pc = "finally"
    /\ IF propagating \/ cur.raisedBy # ""
       THEN pc' = "exit" /\ UNCHANGED <<cur, prev, error>>
       ELSE pc' = "try" /\ prev' = Summary(cur) /\ cur' = NewCycle /\ error' = NoError
    /\ sleeps' = sleeps + 1
    /\ fetches' = 0
    /\ UNCHANGED <<tokens, timestamp, last_message, error_message, propagating, last_delivered>>

\* lines 190-192: time.sleep(RETRY_PERIOD); then the next iteration, or the
\* exception in flight leaves main() and the process ends
FinallyBlock ==
    /\ pc = "finally"
    /\ IF propagating
       THEN pc' = "exit" /\ UNCHANGED <<cur, prev, error>>
       ELSE pc' = "try" /\ prev' = Summary(cur) /\ cur' = NewCycle /\ error' = NoError
    /\ sleeps' = sleeps + 1
    /\ fetches' = 0
    /\ UNCHANGED <<tokens, timestamp, last_message, error_message, propagating, last_delivered>>

\* lines 45-49
required_tokens == {"PRACTICUM_TOKEN", "TELEGRAM_TOKEN", "TELEGRAM_CHAT_ID"}

\* check_tokens(): True if every required token is set, False otherwise
\* (lines 50-63); it raises nothing
check_tokens == \A token \in required_tokens : token \in tokens

\* the state main() is entered in, with any of the tokens set or not
InitStartup ==
    /\ pc = "start"
    /\ tokens \in SUBSET required_tokens
    /\ timestamp = 0
    /\ error_message = StrVal("")
    /\ last_message = ""
    /\ error = NoError
    /\ propagating = FALSE
    /\ last_delivered = ""
    /\ fetches = 0
    /\ sleeps = 0
    /\ cur = [ts0 |-> 0, lm0 |-> "", em0 |-> StrVal(""), ld0 |-> "",
              fetched |-> FALSE, validated |-> FALSE,
              response |-> Seen(NonDictResponse),
              raisedBy |-> "", errType |-> "", errText |-> "",
              parsed |-> <<>>, rendered |-> "", calls |-> <<>>]
    /\ prev = NoCycle

\* lines 166-170: check_tokens() is called and its result dropped;
\* telegram.Bot(token=None) raises, which ends main(); otherwise the loop
\* is entered with timestamp = int(time.time())
Startup ==
    /\ pc = "start"
    /\ check_tokens \in BOOLEAN
    /\ IF "TELEGRAM_TOKEN" \in tokens
       THEN \E now \in Dates :
              /\ timestamp' = now
              /\ cur' = [cur EXCEPT !.ts0 = now]
              /\ pc' = "try"
       ELSE pc' = "exit" /\ UNCHANGED <<timestamp, cur>>
    /\ UNCHANGED <<tokens, error_message, last_message, error, propagating,
                   prev, last_delivered, fetches, sleeps>>

\* lines 168-170, with every token set
Init ==
    /\ pc = "try"
    /\ tokens = required_tokens
    /\ timestamp \in Dates
    /\ error_message = StrVal("")
    /\ last_message = ""
    /\ error = NoError
    /\ propagating = FALSE
    /\ last_delivered = ""
    /\ fetches = 0
    /\ sleeps = 0
    /\ cur = [ts0 |-> timestamp, lm0 |-> "", em0 |-> StrVal(""), ld0 |-> "",
              fetched |-> FALSE, validated |-> FALSE,
              response |-> Seen(NonDictResponse),
              raisedBy |-> "", errType |-> "", errText |-> "",
              parsed |-> <<>>, rendered |-> "", calls |-> <<>>]
    /\ prev = NoCycle

Next == TryBlock \/ ExceptBlock \/ FinallyBlock

Spec == Init /\ [][Next]_vars

\* main() from its first line
\* the loop with every call of main() returning: requests.get, the bot
\* and time.sleep do not block forever
SpecFair == Spec /\ WF_vars(Next)

NextStartup == Startup \/ Next

SpecStartup == InitStartup /\ [][NextStartup]_vars

---------------------------------------------------------------------------
(* Vocabulary of the properties *)

StatusCalls(calls) == SelectSeq(calls, LAMBDA x : x.kind = "status")
ErrorCalls(calls) == SelectSeq(calls, LAMBDA x : x.kind = "error")

\* the try body and, after a failure, the handler of the cycle have run
CycleDone == pc \in {"finally", "exit"}

\* the previous cycle delivered a status message
PrevDelivered == \E i \in DOMAIN prev.calls : prev.calls[i].kind = "status" /\ prev.calls[i].ok

\* a record the parser is to reject: name absent or empty, status absent or
\* outside the verdict catalog
InvalidRecord(h) ==
    \/ ~h.isDict
    \/ h.homework_name \in {PyNone, ""}
    \/ h.status = PyNone
    \/ h.status \notin DOMAIN HOMEWORK_VERDICTS

\* the categories of a failure, by the function that raised: network
\* (get_api_answer), shape (check_response), record (parse_status), delivery
\* (send_message); a failure of none of them is unexpected
Recoverable == {"get_api_answer", "check_response", "parse_status", "send_message"}
Unexpected(c) == c.raisedBy # "" /\ c.raisedBy \notin Recoverable

---------------------------------------------------------------------------
(* Properties *)

\* C1: when two consecutive cycles both fail with the same rendered error
\* text, the second cycle sends no error notification.
C1_ErrorDedup ==
    (/\ CycleDone /\ prev.ran
     /\ prev.raisedBy # "" /\ cur.raisedBy # ""
     /\ cur.errText = prev.errText)
        => ErrorCalls(cur.calls) = <<>>

\* C2 as stated: when two cycles in immediate succession render the same
\* status message and the first one called the bot for it, exactly one call
\* of the bot with a status message results over the two cycles.
C2_ExactlyOneCall ==
    (/\ CycleDone /\ prev.ran
     /\ cur.rendered # "" /\ cur.rendered = prev.rendered
     /\ StatusCalls(prev.calls) # <<>>)
        => Len(StatusCalls(prev.calls)) + Len(StatusCalls(cur.calls)) = 1

\* C2 amended: the bot is never called with a status message equal to the
\* status message it delivered last; and when two cycles in immediate
\* succession render the same message and the first one delivered it, the
\* second one does not call the bot with a status message.
C2_StatusDedup ==
    /\ \A i \in DOMAIN cur.calls :
         cur.calls[i].kind = "status" => cur.calls[i].text # cur.ld0
    /\ (/\ prev.ran /\ cur.rendered # "" /\ cur.rendered = prev.rendered
        /\ PrevDelivered)
           => StatusCalls(cur.calls) = <<>>

\* two cycles in succession rendered the same message, the first delivered
\* it and the second suppressed it
C2_Witness ==
    /\ CycleDone /\ prev.ran /\ PrevDelivered
    /\ cur.rendered # "" /\ cur.rendered = prev.rendered
    /\ cur.calls = <<>>

\* C3: a cycle in which a stage raised leaves the cursor as it was; a cycle
\* in which none raised has fetched and validated a response and has set
\* the cursor to that response's current_date.
C3_CursorFrame ==
    pc \in {"except", "finally", "exit"} =>
        /\ cur.raisedBy # "" => timestamp = cur.ts0
        /\ cur.raisedBy = "" =>
             /\ cur.fetched /\ cur.validated /\ cur.response.hasDate
             /\ timestamp = cur.response.current_date

\* a validated response with another current_date, a failed delivery, and
\* the cursor where it was
C3_Witness ==
    /\ pc = "finally" /\ cur.raisedBy = "send_message"
    /\ cur.validated /\ cur.response.hasDate
    /\ cur.response.current_date # cur.ts0
    /\ timestamp = cur.ts0

C5_MissingKey ==
    (/\ cur.fetched /\ cur.response.isDict
     /\ (~cur.response.hasHomeworks \/ ~cur.response.hasDate))
        => /\ cur.raisedBy = "check_response" /\ cur.errType = "TypeError"
           /\ cur.parsed = <<>>
           /\ StatusCalls(cur.calls) = <<>>

\* C6: parse_status raises for every invalid record it is given, and no
\* status message is sent for it.
C6_InvalidRecordFails ==
    \A i \in DOMAIN cur.parsed :
        InvalidRecord(cur.parsed[i])
            => cur.raisedBy = "parse_status" /\ StatusCalls(cur.calls) = <<>>

\* C7: a cycle whose record has the status "pending" fails in parse_status,
\* leaves the cursor as it was, and attempts exactly one error notification
\* if the error text is not the one reported last.
C7_UnknownStatusFailsCycle ==
    (/\ CycleDone /\ cur.parsed # <<>>
     /\ cur.parsed[1].isDict /\ cur.parsed[1].homework_name = "hw1"
     /\ cur.parsed[1].status = "pending")
        => /\ cur.raisedBy = "parse_status"
           /\ timestamp = cur.ts0
           /\ Len(ErrorCalls(cur.calls)) <= 1
           /\ (cur.em0.text # cur.errText => Len(ErrorCalls(cur.calls)) = 1)

\* C8: after a call of the bot that failed, no further call of the bot is
\* made in the same cycle.
C8_NoCascade ==
    \A i \in DOMAIN cur.calls : ~cur.calls[i].ok => i = Len(cur.calls)

\* C9: a cycle that failed with a network, shape, record or delivery error
\* does not end the loop, even if the error notification is not delivered.
C9_LoopContinues == pc = "exit" => cur.raisedBy \notin Recoverable

C11_NoLoopWithoutSecrets ==
    tokens # required_tokens =>
        /\ pc \in {"start", "exit"}
        /\ ~prev.ran /\ ~cur.fetched /\ cur.raisedBy = "" /\ cur.calls = <<>>

\* C12: for a record with a non-empty name and a status of
\* HOMEWORK_VERDICTS, parse_status returns
\* 'Изменился статус проверки работы "{name}". {verdict}' with the verdict
\* of HOMEWORK_VERDICTS.
C12_RenderedText ==
    \A i \in DOMAIN cur.parsed :
        LET h == cur.parsed[i]
        IN  (/\ h.isDict /\ h.homework_name \notin {PyNone, ""}
             /\ h.status \in DOMAIN HOMEWORK_VERDICTS)
                => cur.rendered = "Izmenilsja status proverki raboty \""
                                  \o h.homework_name \o "\". "
                                  \o HOMEWORK_VERDICTS[h.status]

C14_AllRecordsParsed ==
    (CycleDone /\ cur.validated /\ cur.raisedBy = "")
        => Len(cur.parsed) = cur.response.nrecords

\* C15: every cycle sleeps exactly once after its work, whether it
\* succeeded, failed with a reported error, or failed while reporting the
\* error, and get_api_answer is never called twice without a sleep between.
C15_SleepEveryCycle ==
    /\ fetches <= 1 /\ sleeps <= 1
    /\ pc \in {"except", "finally"} => fetches = 1 /\ sleeps = 0
    /\ (pc = "try" /\ prev.ran) => fetches = 0 /\ sleeps = 1
    /\ pc = "exit" => fetches = 0 /\ sleeps = 1

\* a cycle that succeeded and slept, then a cycle that failed while
\* reporting its error and slept before main() was left
C15_Witness ==
    /\ pc = "exit" /\ sleeps = 1 /\ propagating
    /\ prev.ran /\ prev.raisedBy = ""
    /\ cur.raisedBy # "" /\ ErrorCalls(cur.calls) # <<>>

\* C16: after a cycle whose error is not the one error_message holds,
\* error_message holds the cycle's error, whether the bot delivered the
\* error notification or not.
C16_SlotUpdated ==
    (/\ CycleDone /\ cur.raisedBy # ""
     /\ PyNotEqual(error, cur.em0))
        => error_message = error

\* the cycle is over and the delivery of its status message failed
StatusDeliveryFailed == CycleDone /\ cur.raisedBy = "send_message"

\* C17: when send_message fails for a status message, the cycle leaves
\* last_message and timestamp as they were, the next cycle starts from
\* them, and a next cycle that renders the same message calls the bot
\* for it again.
C17_RetryAfterFailedDelivery ==
    /\ [](StatusDeliveryFailed =>
              last_message = cur.lm0 /\ timestamp = cur.ts0)
    /\ []((CycleDone /\ prev.raisedBy = "send_message"
                     /\ cur.rendered # "" /\ cur.rendered = prev.rendered)
              => \E i \in DOMAIN cur.calls :
                     cur.calls[i] \in { Call("status", cur.rendered, ok) :
                                            ok \in BOOLEAN })
    /\ [][(StatusDeliveryFailed /\ pc' = "try")
              => cur'.ts0 = cur.ts0 /\ cur'.lm0 = cur.lm0]_vars

\* a status delivery failed, its error was reported, and the next cycle
\* rendered the same message and delivered it
C17_Witness ==
    /\ pc = "finally" /\ prev.raisedBy = "send_message"
    /\ cur.rendered # "" /\ cur.rendered = prev.rendered
    /\ cur.calls = <<Call("status", cur.rendered, TRUE)>>
    /\ cur.lm0 = ""

\* C18: in one cycle the bot is called at most twice: at most once for a
\* status message and at most once for an error notification, and for an
\* error notification only when a statement of the try body raised.
C18_BoundedChatter ==
    /\ Len(cur.calls) <= 2
    /\ Len(StatusCalls(cur.calls)) <= 1
    /\ Len(ErrorCalls(cur.calls)) <= 1
    /\ ErrorCalls(cur.calls) # <<>> => cur.raisedBy # ""

\* a cycle with two calls: the status message, whose delivery failed, and
\* the notification of that failure
C18_Witness ==
    /\ CycleDone /\ Len(cur.calls) = 2
    /\ cur.calls[1].kind = "status" /\ ~cur.calls[1].ok
    /\ cur.calls[2].kind = "error"
    /\ cur.raisedBy = "send_message"

\* every call of the bot in the current cycle was delivered
AllDelivered == \A i \in DOMAIN cur.calls : cur.calls[i].ok

\* C19: while the bot delivers, the loop does not end: main() is left only
\* in a cycle with a failed delivery, and a cycle whose calls were all
\* delivered is followed by the sleep and then by the next call of
\* get_api_answer, whatever was raised in it.
C19_LoopNeverEnds ==
    /\ [](pc = "exit" => ~AllDelivered)
    /\ ((pc = "finally" /\ AllDelivered)
            ~> (pc = "try" /\ sleeps = 1 /\ <>(fetches = 1 /\ sleeps = 0)))

\* a cycle that raised and whose error notification was delivered has been
\* followed by the sleep and by the next fetch
C19_Witness ==
    /\ pc \in {"except", "finally"} /\ fetches = 1
    /\ prev.ran /\ prev.raisedBy # ""
    /\ prev.calls # <<>>
    /\ \A i \in DOMAIN prev.calls : prev.calls[i].ok

===========================================================================
